---- MODULE Spec2Model ----
(***************************************************************************)
(* Model of the multi-user Google Forms MCP gateway (src/main.py): the     *)
(* OAuth routes /auth/google and /auth/google/callback, the token store    *)
(* behind load_tokens/save_tokens, and the JSON-RPC dispatcher /mcp.       *)
(*                                                                         *)
(* Python values are modelled structurally: a dict is a function whose     *)
(* DOMAIN is its key set, None is the value None below, a list is a        *)
(* sequence, and a message is the sequence of its pieces (the literal      *)
(* parts and the interpolated values of an f-string).                      *)
(***************************************************************************)
EXTENDS Integers, Sequences, FiniteSets, TLC

VARIABLES store, req, resp, io, pc, loc

vars == <<store, req, resp, io, pc, loc>>

(***************************************************************************)
(* Bounds of the model.                                                    *)
(***************************************************************************)
MaxToken == 2
MaxRefresh == 2
MaxResponses == 2

TokenNames == <<"t1", "t2", "t3">>
RefreshNames == <<"r1", "r2", "r3">>

AccessTokens == {TokenNames[i] : i \in 1..MaxToken}
RefreshTokens == {RefreshNames[i] : i \in 1..MaxRefresh}
UserIds == {"default", "alice"}
Ids == {"id1"}
FormIds == {"X"}
PageSizes == {1}

(***************************************************************************)
(* Python values and dict operations.                                      *)
(***************************************************************************)
None == "<None>"
EmptyStr == ""
EmptyDict == [k \in {} |-> None]

\* x is not None
Truthy_NotNone(x) == x # None

\* bool(x) for the values that occur: None and "" are falsy
Truthy(x) == x \notin {None, EmptyStr}

\* b or a: the operands the other way round
PyOr_Swapped(a, b) == IF Truthy(b) THEN b ELSE a

\* a or b
PyOr(a, b) == IF Truthy(a) THEN a ELSE b

\* d.get(k, default)
Get(d, k, default) == IF k \in DOMAIN d THEN d[k] ELSE default

\* a fresh dict holding only k
Put_Only(d, k, v) == [x \in {k} |-> v]

\* d[k] = v
Put(d, k, v) == [x \in (DOMAIN d) \cup {k} |-> IF x = k THEN v ELSE d[x]]

\* the dicts that either lack key k or bind it to a value of S
OptField(k, S) == {EmptyDict} \cup {[x \in {k} |-> v] : v \in S}

\* the union of two dicts with disjoint keys
Merge(f, g) == [x \in (DOMAIN f) \cup (DOMAIN g) |-> IF x \in DOMAIN f THEN f[x] ELSE g[x]]

(***************************************************************************)
(* Configuration (src/main.py:30-38).                                      *)
(***************************************************************************)
SCOPES ==
  <<"https://www.googleapis.com/auth/forms.body",
    "https://www.googleapis.com/auth/forms.responses.readonly">>
BASE_URL == "https://forms-mcp.example"
REDIRECT_URI == <<BASE_URL, "/auth/google/callback">>
TOKEN_URI == "https://oauth2.googleapis.com/token"
AUTH_URI == "https://accounts.google.com/o/oauth2/auth"

(***************************************************************************)
(* Results of a handler: the HTTP response and the log of the external     *)
(* effects (token store reads and writes, OAuth exchange, backend calls)   *)
(* the handler performed, in order.                                        *)
(***************************************************************************)
Json(body) == [status |-> 200, kind |-> "json", body |-> body]
\* an exception that leaves the handler: the framework answers 500
Raised(exc) == [status |-> 500, kind |-> "exception", body |-> [exception |-> exc]]

LoadEv(tokens) == [ev |-> "load_tokens", tokens |-> tokens]
SaveEv(tokens) == [ev |-> "save_tokens", tokens |-> tokens]
ExchangeEv(outcome) == [ev |-> "fetch_token", outcome |-> outcome]
GetFormEv(credentials, form_id, outcome) ==
  [ev |-> "backend", op |-> "getForm", credentials |-> credentials, formId |-> form_id,
   outcome |-> outcome]
ListResponsesEv(credentials, form_id, page_size, outcome) ==
  [ev |-> "backend", op |-> "listResponses", credentials |-> credentials, formId |-> form_id,
   pageSize |-> page_size, outcome |-> outcome]

(***************************************************************************)
(* TokenStore (tokens.py): the persisted mapping user id -> record.        *)
(***************************************************************************)
load_tokens == store
save_tokens(tokens) == tokens

(***************************************************************************)
(* Helpers (src/main.py:61-73).                                            *)
(***************************************************************************)
\* user_id read at the top level of the payload
get_user_id_TopLevel(payload) == Get(payload, "user_id", "default")

get_user_id(payload) == Get(Get(payload, "meta", EmptyDict), "user_id", "default")

\* the envelope with a null id
auth_error_NullId(id_, user_id) ==
  [jsonrpc |-> "2.0",
   id |-> None,
   error |-> [code |-> 401,
              message |-> <<"Google Forms not connected for user '", user_id,
                            "'. Visit ", BASE_URL, "/auth/google?user_id=", user_id>>]]

auth_error(id_, user_id) ==
  [jsonrpc |-> "2.0",
   id |-> id_,
   error |-> [code |-> 401,
              message |-> <<"Google Forms not connected for user '", user_id,
                            "'. Visit ", BASE_URL, "/auth/google?user_id=", user_id>>]]

(***************************************************************************)
(* OAuth routes (src/main.py:80-112).                                      *)
(***************************************************************************)
\* GET /auth/google?user_id=...
google_auth(query) ==
  LET user_id == Get(query, "user_id", "default") IN
  [resp |-> [status |-> 307, kind |-> "redirect",
             body |-> [url |-> AUTH_URI, access_type |-> "offline",
                       prompt |-> "consent", state |-> user_id,
                       redirect_uri |-> REDIRECT_URI, scope |-> SCOPES]],
   io |-> <<>>,
   store |-> store]

\* the record as the exchange returned it, with no merge
MergedRecord_NoMerge(credentials, existing_refresh) ==
  [token |-> credentials.token, refresh_token |-> credentials.refresh_token]

\* the record google_callback stores for a user
MergedRecord(credentials, existing_refresh) ==
  [token |-> credentials.token,
   refresh_token |-> PyOr(credentials.refresh_token, existing_refresh)]

\* user_id read from a user_id query parameter
state_user_id_FromUserId(query) == Get(query, "user_id", "default")

\* the user a callback is for (src/main.py:101)
state_user_id(query) == Get(query, "state", "default")

\* a failed exchange answered with the success status
google_callback_Swallow(query, exchange) ==
  LET code == Get(query, "code", None) IN
  IF ~Truthy(code)
  THEN [resp |-> Json([status |-> "waiting for google authorization"]),
        io |-> <<>>,
        store |-> store]
  ELSE IF ~exchange.ok
  THEN [resp |-> Json([status |-> "forms connected successfully", user |-> state_user_id(query)]),
        io |-> <<ExchangeEv(exchange)>>,
        store |-> store]
  ELSE
    LET user_id == state_user_id(query)
        tokens == load_tokens
        existing_refresh == Get(Get(tokens, user_id, EmptyDict), "refresh_token", None)
        tokens2 == Put(tokens, user_id, MergedRecord(exchange.credentials, existing_refresh))
    IN [resp |-> Json([status |-> "forms connected successfully", user |-> user_id]),
        io |-> <<ExchangeEv(exchange), LoadEv(tokens), SaveEv(tokens2)>>,
        store |-> save_tokens(tokens2)]

\* GET /auth/google/callback?code=...&state=...
\* exchange is the outcome of flow.fetch_token: a failure or the credentials
google_callback(query, exchange) ==
  LET code == Get(query, "code", None) IN
  IF ~Truthy(code)
  THEN [resp |-> Json([status |-> "waiting for google authorization"]),
        io |-> <<>>,
        store |-> store]
  ELSE IF ~exchange.ok
  THEN [resp |-> Raised("TokenExchangeFailed"),
        io |-> <<ExchangeEv(exchange)>>,
        store |-> store]
  ELSE
    LET user_id == state_user_id(query)
        tokens == load_tokens
        existing_refresh == Get(Get(tokens, user_id, EmptyDict), "refresh_token", None)
        tokens2 == Put(tokens, user_id, MergedRecord(exchange.credentials, existing_refresh))
    IN [resp |-> Json([status |-> "forms connected successfully", user |-> user_id]),
        io |-> <<ExchangeEv(exchange), LoadEv(tokens), SaveEv(tokens2)>>,
        store |-> save_tokens(tokens2)]

(***************************************************************************)
(* google_callback step by step, for callbacks that run concurrently: the  *)
(* handler is a plain def, which the framework runs on a worker thread.    *)
(* A frame holds the locals of one running callback.  The steps are cut at *)
(* the two accesses to the token store, each of which is atomic.           *)
(***************************************************************************)
\* the code guard and flow.fetch_token (src/main.py:94-101)
google_callback_exchange(query, exchange) ==
  LET code == Get(query, "code", None) IN
  IF ~Truthy(code)
  THEN [next |-> "done",
        frame |-> [query |-> query, resp |-> Json([status |-> "waiting for google authorization"])]]
  ELSE IF ~exchange.ok
  THEN [next |-> "done",
        frame |-> [query |-> query, resp |-> Raised("TokenExchangeFailed")]]
  ELSE [next |-> "load",
        frame |-> [query |-> query, credentials |-> exchange.credentials,
                   user_id |-> state_user_id(query)]]

\* tokens = load_tokens() and the read of the stored refresh token (src/main.py:103-104)
google_callback_load(frame) ==
  LET tokens == load_tokens IN
  [query |-> frame.query, credentials |-> frame.credentials, user_id |-> frame.user_id,
   tokens |-> tokens,
   existing_refresh |-> Get(Get(tokens, frame.user_id, EmptyDict), "refresh_token", None)]

\* tokens[user_id] = {...}, save_tokens(tokens) and the return (src/main.py:106-112)
google_callback_save(frame) ==
  LET record == MergedRecord(frame.credentials, frame.existing_refresh)
      tokens2 == Put(frame.tokens, frame.user_id, record)
  IN [store |-> save_tokens(tokens2),
      frame |-> [query |-> frame.query, credentials |-> frame.credentials,
                 user_id |-> frame.user_id, record |-> record,
                 resp |-> Json([status |-> "forms connected successfully",
                                user |-> frame.user_id])]]

(***************************************************************************)
(* Google Forms helpers (src/main.py:119-160).  outcome is what the        *)
(* upstream service does with the call: "ok" answers with every optional   *)
(* field, "bare" answers without them, "error" raises, and "refreshed"     *)
(* answers like "ok" after the credential built by get_forms_service       *)
(* refreshed its access token in memory.                                   *)
(***************************************************************************)
Min(a, b) == IF a <= b THEN a ELSE b

\* the upstream answer to forms().get
UpstreamForm(form_id, outcome) ==
  IF outcome \in {"ok", "refreshed"}
  THEN [formId |-> form_id, info |-> [title |-> "T", documentTitle |-> "D"]]
  ELSE [formId |-> form_id, info |-> [title |-> "T"]]

\* the upstream answer to forms().responses().list
UpstreamResponses(form_id, page_size, outcome) ==
  IF outcome \in {"ok", "refreshed"}
  THEN [responses |-> [i \in 1..Min(page_size, MaxResponses) |-> [responseId |-> i]]]
  ELSE EmptyDict

\* no membership test: an unknown user gets a credential without tokens
get_forms_service_NoCheck(user_id) ==
  LET tokens == load_tokens
      record == Get(tokens, user_id, [token |-> None, refresh_token |-> None])
  IN [built |-> TRUE,
      credentials |-> [token |-> record["token"],
                       refresh_token |-> record["refresh_token"],
                       token_uri |-> TOKEN_URI,
                       scopes |-> SCOPES],
      io |-> <<LoadEv(tokens)>>]

get_forms_service(user_id) ==
  LET tokens == load_tokens IN
  IF user_id \notin DOMAIN tokens
  THEN [built |-> FALSE, io |-> <<LoadEv(tokens)>>]
  ELSE [built |-> TRUE,
        credentials |-> [token |-> tokens[user_id]["token"],
                         refresh_token |-> tokens[user_id]["refresh_token"],
                         token_uri |-> TOKEN_URI,
                         scopes |-> SCOPES],
        io |-> <<LoadEv(tokens)>>]

forms_get_form(user_id, form_id, outcome) ==
  LET service == get_forms_service(user_id) IN
  IF ~service.built
  THEN [tag |-> "AUTH_REQUIRED", io |-> service.io]
  ELSE
    LET call == GetFormEv(service.credentials, form_id, outcome) IN
    IF outcome = "error"
    THEN [tag |-> "raise", exc |-> "HttpError", io |-> Append(service.io, call)]
    ELSE
      LET form == UpstreamForm(form_id, outcome) IN
      [tag |-> "value",
       value |-> [formId |-> form["formId"],
                  title |-> form["info"]["title"],
                  documentTitle |-> Get(form["info"], "documentTitle", None)],
       io |-> Append(service.io, call)]

forms_list_responses(user_id, form_id, max_results, outcome) ==
  LET service == get_forms_service(user_id) IN
  IF ~service.built
  THEN [tag |-> "AUTH_REQUIRED", io |-> service.io]
  ELSE
    LET call == ListResponsesEv(service.credentials, form_id, max_results, outcome) IN
    IF outcome = "error"
    THEN [tag |-> "raise", exc |-> "HttpError", io |-> Append(service.io, call)]
    ELSE
      LET res == UpstreamResponses(form_id, max_results, outcome) IN
      [tag |-> "value", value |-> Get(res, "responses", <<>>), io |-> Append(service.io, call)]

(***************************************************************************)
(* MCP endpoints (src/main.py:167-271).                                    *)
(***************************************************************************)
health == [status |-> "Forms MCP running"]

ServerInfo == [serverInfo |-> [name |-> "Multi-User Google Forms MCP", version |-> "0.1.0"]]

ToolCatalog ==
  [tools |->
    << [name |-> "forms.get_form",
        description |-> "Get basic information about a Google Form",
        inputSchema |->
          [type |-> "object",
           properties |-> [form_id |-> [type |-> "string", description |-> "Google Form ID"]],
           required |-> <<"form_id">>]],
       [name |-> "forms.list_responses",
        description |-> "List responses of a Google Form",
        inputSchema |->
          [type |-> "object",
           properties |-> [form_id |-> [type |-> "string", description |-> "Google Form ID"],
                           max_results |-> [type |-> "integer", default |-> 5]],
           required |-> <<"form_id">>]] >>]

Success(id_, result) == [jsonrpc |-> "2.0", id |-> id_, result |-> result]

\* the final return as a plain dict: status 200
MethodNotFound_200(id_) ==
  [status |-> 200, kind |-> "json",
   body |-> [jsonrpc |-> "2.0", id |-> id_,
             error |-> [code |-> -32601, message |-> <<"Method not found">>]]]

MethodNotFound(id_) ==
  [status |-> 400, kind |-> "json",
   body |-> [jsonrpc |-> "2.0", id |-> id_,
             error |-> [code |-> -32601, message |-> <<"Method not found">>]]]

\* the authorization error sent with transport status 401
ToolReply_Http401(id_, user_id, res) ==
  IF res.tag = "raise" THEN Raised(res.exc)
  ELSE IF res.tag = "AUTH_REQUIRED"
  THEN [status |-> 401, kind |-> "json", body |-> auth_error(id_, user_id)]
  ELSE Json(Success(id_, [content |-> <<[type |-> "json", json |-> res.value]>>]))

\* the tail shared by both tool branches (src/main.py:242-248, 256-262)
ToolReply(id_, user_id, res) ==
  IF res.tag = "raise" THEN Raised(res.exc)
  ELSE IF res.tag = "AUTH_REQUIRED" THEN Json(auth_error(id_, user_id))
  ELSE Json(Success(id_, [content |-> <<[type |-> "json", json |-> res.value]>>]))

\* form_id read with a default in place of the subscript
call_get_form_DefaultForm(id_, user_id, args, outcome) ==
  LET res == forms_get_form(user_id, Get(args, "form_id", EmptyStr), outcome)
  IN [resp |-> ToolReply(id_, user_id, res), io |-> res.io]

\* tool == "forms.get_form" (src/main.py:240-248)
call_get_form(id_, user_id, args, outcome) ==
  IF "form_id" \notin DOMAIN args
  THEN [resp |-> Raised("KeyError"), io |-> <<>>]
  ELSE LET res == forms_get_form(user_id, args["form_id"], outcome)
       IN [resp |-> ToolReply(id_, user_id, res), io |-> res.io]

\* a default of 10 in place of 5
call_list_responses_Default10(id_, user_id, args, outcome) ==
  IF "form_id" \notin DOMAIN args
  THEN [resp |-> Raised("KeyError"), io |-> <<>>]
  ELSE LET res == forms_list_responses(user_id, args["form_id"],
                                       Get(args, "max_results", 10), outcome)
       IN [resp |-> ToolReply(id_, user_id, res), io |-> res.io]

\* tool == "forms.list_responses" (src/main.py:250-262)
call_list_responses(id_, user_id, args, outcome) ==
  IF "form_id" \notin DOMAIN args
  THEN [resp |-> Raised("KeyError"), io |-> <<>>]
  ELSE LET res == forms_list_responses(user_id, args["form_id"],
                                       Get(args, "max_results", 5), outcome)
       IN [resp |-> ToolReply(id_, user_id, res), io |-> res.io]

\* `else` in place of the test of the first tool name
tools_call_FallbackGetForm(payload, id_, user_id, outcome) ==
  IF "params" \notin DOMAIN payload \/ "name" \notin DOMAIN payload["params"]
  THEN [resp |-> Raised("KeyError"), io |-> <<>>]
  ELSE
    LET tool == payload["params"]["name"]
        args == Get(payload["params"], "arguments", EmptyDict)
    IN
    IF tool = "forms.list_responses" THEN call_list_responses(id_, user_id, args, outcome)
    ELSE call_get_form(id_, user_id, args, outcome)

\* the tools/call branch (src/main.py:236-262); an unknown tool falls
\* through to the final return of mcp_handler
tools_call(payload, id_, user_id, outcome) ==
  IF "params" \notin DOMAIN payload \/ "name" \notin DOMAIN payload["params"]
  THEN [resp |-> Raised("KeyError"), io |-> <<>>]
  ELSE
    LET tool == payload["params"]["name"]
        args == Get(payload["params"], "arguments", EmptyDict)
    IN
    IF tool = "forms.get_form" THEN call_get_form(id_, user_id, args, outcome)
    ELSE IF tool = "forms.list_responses" THEN call_list_responses(id_, user_id, args, outcome)
    ELSE [resp |-> MethodNotFound(id_), io |-> <<>>]

\* the refreshed access token saved to the token store
mcp_handler_WriteBack(payload, outcome) ==
  LET method == Get(payload, "method", None)
      id_ == Get(payload, "id", None)
      user_id == get_user_id(payload)
      out ==
        IF method = "initialize"
        THEN [resp |-> Json(Success(id_, ServerInfo)), io |-> <<>>]
        ELSE IF method = "tools/list"
        THEN [resp |-> Json(Success(id_, ToolCatalog)), io |-> <<>>]
        ELSE IF method = "tools/call"
        THEN tools_call(payload, id_, user_id, outcome)
        ELSE [resp |-> MethodNotFound(id_), io |-> <<>>]
      refreshed == \E i \in DOMAIN out.io : out.io[i].ev = "backend" /\ out.io[i].outcome = "refreshed"
  IN [resp |-> out.resp, io |-> out.io,
      store |-> IF refreshed
                THEN Put(store, user_id, [token |-> "t_refreshed",
                                          refresh_token |-> store[user_id]["refresh_token"]])
                ELSE store]

\* an authorization check ahead of the dispatch
mcp_handler_AuthFirst(payload, outcome) ==
  LET method == Get(payload, "method", None)
      id_ == Get(payload, "id", None)
      user_id == get_user_id(payload)
      service == get_forms_service(user_id)
      out ==
        IF ~service.built
        THEN [resp |-> Json(auth_error(id_, user_id)), io |-> service.io]
        ELSE IF method = "initialize"
        THEN [resp |-> Json(Success(id_, ServerInfo)), io |-> <<>>]
        ELSE IF method = "tools/list"
        THEN [resp |-> Json(Success(id_, ToolCatalog)), io |-> <<>>]
        ELSE IF method = "tools/call"
        THEN tools_call(payload, id_, user_id, outcome)
        ELSE [resp |-> MethodNotFound(id_), io |-> <<>>]
  IN [resp |-> out.resp, io |-> out.io, store |-> store]

\* POST /mcp
mcp_handler(payload, outcome) ==
  LET method == Get(payload, "method", None)
      id_ == Get(payload, "id", None)
      user_id == get_user_id(payload)
      out ==
        IF method = "initialize"
        THEN [resp |-> Json(Success(id_, ServerInfo)), io |-> <<>>]
        ELSE IF method = "tools/list"
        THEN [resp |-> Json(Success(id_, ToolCatalog)), io |-> <<>>]
        ELSE IF method = "tools/call"
        THEN tools_call(payload, id_, user_id, outcome)
        ELSE [resp |-> MethodNotFound(id_), io |-> <<>>]
  IN [resp |-> out.resp, io |-> out.io, store |-> store]

(***************************************************************************)
(* Inputs.                                                                 *)
(***************************************************************************)
AuthQueries == OptField("user_id", UserIds)

CallbackQueries ==
  {Merge(c, s) : c \in OptField("code", {EmptyStr, "code"}), s \in OptField("state", UserIds)}

Exchanges ==
  {[ok |-> FALSE]} \cup
  {[ok |-> TRUE, credentials |-> [token |-> t, refresh_token |-> r]] :
     t \in AccessTokens, r \in RefreshTokens \cup {None}}

Methods == {"initialize", "tools/list", "tools/call", "foo"}
Tools == {"forms.get_form", "forms.list_responses", "forms.delete_form"}
Metas == OptField("user_id", UserIds)
Arguments == {Merge(f, m) : f \in OptField("form_id", FormIds), m \in OptField("max_results", PageSizes)}
Params ==
  {EmptyDict} \cup {Merge([x \in {"name"} |-> n], a) : n \in Tools, a \in OptField("arguments", Arguments)}

\* request bodies; params accompany tools/call only
Payloads ==
  {Merge(Merge(m, i), Merge(u, p)) :
     m \in OptField("method", Methods), i \in OptField("id", Ids),
     u \in OptField("meta", Metas), p \in OptField("params", Params)}

McpPayloads ==
  {p \in Payloads : "params" \in DOMAIN p => Get(p, "method", None) = "tools/call"}

BackendOutcomes == {"ok", "bare", "error", "refreshed"}

\* whether a handler reached the upstream service
CalledBackend(log) == \E i \in DOMAIN log : log[i].ev = "backend"

(***************************************************************************)
(* The state machine.                                                      *)
(***************************************************************************)
\* the callbacks that run concurrently
Procs == {"p1", "p2"}

Init ==
  /\ store = EmptyDict
  /\ req = [route |-> "GET /"]
  /\ resp = Json(health)
  /\ io = <<>>
  /\ pc = [p \in Procs |-> "idle"]
  /\ loc = [p \in Procs |-> EmptyDict]

Handle(request, out) ==
  /\ req' = request
  /\ resp' = out.resp
  /\ io' = out.io
  /\ store' = out.store
  /\ UNCHANGED <<pc, loc>>

Health ==
  Handle([route |-> "GET /"], [resp |-> Json(health), io |-> <<>>, store |-> store])

GoogleAuth ==
  \E query \in AuthQueries :
    Handle([route |-> "GET /auth/google", query |-> query], google_auth(query))

GoogleCallback ==
  \E query \in CallbackQueries, exchange \in Exchanges :
    Handle([route |-> "GET /auth/google/callback", query |-> query],
           google_callback(query, exchange))

\* the upstream outcome is a choice only when the handler reaches the service
McpHandler ==
  \E payload \in McpPayloads :
    LET out == mcp_handler(payload, "ok") IN
    \E outcome \in (IF CalledBackend(out.io) THEN BackendOutcomes ELSE {"ok"}) :
      Handle([route |-> "POST /mcp", payload |-> payload],
             IF outcome = "ok" THEN out ELSE mcp_handler(payload, outcome))

Next ==
  \/ Health
  \/ GoogleAuth
  \/ GoogleCallback
  \/ McpHandler

Spec == Init /\ [][Next]_vars

(***************************************************************************)
(* Two callbacks that run concurrently on an empty store, each one taking  *)
(* the steps of google_callback in order, interleaved in every way.        *)
(***************************************************************************)
CallbackExchange(p) ==
  /\ pc[p] = "idle"
  /\ \E query \in CallbackQueries, exchange \in Exchanges :
       LET out == google_callback_exchange(query, exchange) IN
       /\ pc' = [pc EXCEPT ![p] = out.next]
       /\ loc' = [loc EXCEPT ![p] = out.frame]
  /\ UNCHANGED <<store, req, resp, io>>

CallbackLoad(p) ==
  /\ pc[p] = "load"
  /\ pc' = [pc EXCEPT ![p] = "save"]
  /\ loc' = [loc EXCEPT ![p] = google_callback_load(loc[p])]
  /\ UNCHANGED <<store, req, resp, io>>

CallbackSave(p) ==
  /\ pc[p] = "save"
  /\ LET out == google_callback_save(loc[p]) IN
       /\ store' = out.store
       /\ loc' = [loc EXCEPT ![p] = out.frame]
  /\ pc' = [pc EXCEPT ![p] = "done"]
  /\ UNCHANGED <<req, resp, io>>

NextRace ==
  \/ \E p \in Procs : CallbackExchange(p)
  \/ \E p \in Procs : CallbackLoad(p)
  \/ \E p \in Procs : CallbackSave(p)

SpecRace == Init /\ [][NextRace]_vars

(***************************************************************************)
(* Vocabulary of the properties.                                           *)
(***************************************************************************)
IsCallback(r) == r.route = "GET /auth/google/callback"
IsBeginAuth(r) == r.route = "GET /auth/google"
IsMcp(r) == r.route = "POST /mcp"

\* the callback carried an authorization code
HasCode(r) == "code" \in DOMAIN r.query /\ r.query["code"] # ""

\* the callback ran to its end: a code, and an exchange that succeeded
CallbackSucceeded(r, log) ==
  IsCallback(r) /\ HasCode(r) /\ Len(log) >= 1 /\ log[1].ev = "fetch_token" /\ log[1].outcome.ok

\* the user a callback is for: the echoed state, "default" when there is none
CallbackUser(r) == IF "state" \in DOMAIN r.query THEN r.query["state"] ELSE "default"

\* the tenant of an /mcp request: meta.user_id, "default" when there is none
Requester(r) ==
  IF "meta" \in DOMAIN r.payload /\ "user_id" \in DOMAIN r.payload["meta"]
  THEN r.payload["meta"]["user_id"]
  ELSE "default"

Method(r) == IF "method" \in DOMAIN r.payload THEN r.payload["method"] ELSE None

\* a tools/call request that names a tool
NamesTool(r) ==
  /\ IsMcp(r)
  /\ Method(r) = "tools/call"
  /\ "params" \in DOMAIN r.payload
  /\ "name" \in DOMAIN r.payload["params"]

ToolOf(r) == r.payload["params"]["name"]

FormTools == {"forms.get_form", "forms.list_responses"}

HoldsRefresh(s, u) == u \in DOMAIN s /\ s[u]["refresh_token"] # None

IsErrorEnvelope(rsp, code) ==
  /\ rsp.kind = "json"
  /\ DOMAIN rsp.body = {"jsonrpc", "id", "error"}
  /\ rsp.body["error"]["code"] = code

IsSuccessEnvelope(rsp) ==
  /\ rsp.kind = "json"
  /\ rsp.status = 200
  /\ DOMAIN rsp.body = {"jsonrpc", "id", "result"}

BackendCalls(log) == {i \in DOMAIN log : log[i].ev = "backend"}

(***************************************************************************)
(* C1: once the stored record of a user holds a refresh token, it holds a  *)
(* refresh token after every later step, callbacks whose exchange returned *)
(* no refresh token included.                                              *)
(***************************************************************************)
C1_RefreshTokenKept ==
  [][\A u \in UserIds : HoldsRefresh(store, u) => HoldsRefresh(store', u)]_vars

\* a callback whose exchange returned no refresh token, for a user who holds one
C1_Witness ==
  /\ CallbackSucceeded(req, io)
  /\ io[1].outcome.credentials.refresh_token = None
  /\ HoldsRefresh(io[2].tokens, CallbackUser(req))
  /\ HoldsRefresh(store, CallbackUser(req))

(***************************************************************************)
(* C2: a callback for a user whose record is {t1, r1} leaves {t2, r1} when *)
(* the exchange yields {t2, no refresh token} and {t2, r2} when it yields  *)
(* {t2, r2}; the access token is the new one in both cases.                *)
(***************************************************************************)
C2_MergeResult ==
  [][CallbackSucceeded(req', io') /\ HoldsRefresh(store, CallbackUser(req')) =>
       LET u == CallbackUser(req')
           new == io'[1].outcome.credentials
       IN /\ u \in DOMAIN store'
          /\ store'[u]["token"] = new.token
          /\ store'[u]["refresh_token"] =
               IF new.refresh_token = None THEN store[u]["refresh_token"]
               ELSE new.refresh_token]_vars

\* {t1, r1} became {t2, r2}: both tokens replaced by a callback
C2_Witness ==
  /\ CallbackSucceeded(req, io)
  /\ HoldsRefresh(io[2].tokens, CallbackUser(req))
  /\ io[1].outcome.credentials.refresh_token # None
  /\ io[1].outcome.credentials.refresh_token # io[2].tokens[CallbackUser(req)]["refresh_token"]
  /\ io[1].outcome.credentials.token # io[2].tokens[CallbackUser(req)]["token"]
  /\ store[CallbackUser(req)] = [token |-> io[1].outcome.credentials.token,
                                 refresh_token |-> io[1].outcome.credentials.refresh_token]

(***************************************************************************)
(* C3: a tools/call naming forms.get_form or forms.list_responses, by a    *)
(* user with no stored record, returns the 401 envelope whose message      *)
(* names the user and carries <base>/auth/google?user_id=<user>, whatever  *)
(* the arguments.                                                          *)
(***************************************************************************)
NamesUserAndUrl(message, u) ==
  /\ Len(message) = 6
  /\ message[2] = u
  /\ SubSeq(message, 4, 6) = <<BASE_URL, "/auth/google?user_id=", u>>

C3_Unauthorized401 ==
  (NamesTool(req) /\ ToolOf(req) \in FormTools /\ Requester(req) \notin DOMAIN store) =>
    /\ IsErrorEnvelope(resp, 401)
    /\ NamesUserAndUrl(resp.body["error"]["message"], Requester(req))

(***************************************************************************)
(* C4: the backend is called for a request only after a read of the token  *)
(* store that holds a record for the requesting user, and a tools/call is  *)
(* never answered with a success envelope for a user without a record.     *)
(***************************************************************************)
C4_AuthorizationGate ==
  /\ ~IsMcp(req) => BackendCalls(io) = {}
  /\ IsMcp(req) =>
       /\ \A i \in BackendCalls(io) :
            \E j \in 1..(i - 1) :
              io[j].ev = "load_tokens" /\ Requester(req) \in DOMAIN io[j].tokens
       /\ (Method(req) = "tools/call" /\ IsSuccessEnvelope(resp)) =>
            Requester(req) \in DOMAIN store

\* a backend call answered with success while some other user has no record
C4_Witness ==
  /\ NamesTool(req)
  /\ BackendCalls(io) # {}
  /\ IsSuccessEnvelope(resp)
  /\ \E u \in UserIds : u \notin DOMAIN store

(***************************************************************************)
(* C5: no step removes a stored record, so a user who has become           *)
(* authorized stays authorized, and a request of an authorized user is     *)
(* never answered with the 401 envelope.                                   *)
(***************************************************************************)
C5_AuthorizationMonotonic ==
  [][/\ \A u \in DOMAIN store : u \in DOMAIN store'
     /\ (IsMcp(req') /\ Requester(req') \in DOMAIN store) => ~IsErrorEnvelope(resp', 401)]_vars

\* both users authorized one after the other, then a tool call by one of them
C5_Witness ==
  /\ NamesTool(req)
  /\ ToolOf(req) \in FormTools
  /\ DOMAIN store = UserIds
  /\ Requester(req) = "default"
  /\ resp.status = 200
  /\ ~IsErrorEnvelope(resp, 401)

(***************************************************************************)
(* C6: a callback without an authorization code answers the waiting status *)
(* and leaves the token store as it was, with no exchange, load or save,   *)
(* whatever the state parameter and the store.                             *)
(***************************************************************************)
C6_NoCodeNoEffect ==
  [][(IsCallback(req') /\ ~HasCode(req')) =>
       /\ store' = store
       /\ io' = <<>>
       /\ resp' = [status |-> 200, kind |-> "json",
                   body |-> [status |-> "waiting for google authorization"]]]_vars

\* a callback without a code, with a state parameter, on a store with records
C6_Witness ==
  /\ IsCallback(req)
  /\ ~HasCode(req)
  /\ "state" \in DOMAIN req.query
  /\ store # EmptyDict
  /\ resp.body = [status |-> "waiting for google authorization"]

(***************************************************************************)
(* C7: the pending authorization lives in the state parameter alone:       *)
(* /auth/google issues state = user_id ("default" without one) and keeps   *)
(* nothing; a successful callback writes the new record under the echoed   *)
(* state ("default" without one) and leaves every other record unchanged.  *)
(***************************************************************************)
C7_StateCarriesUser ==
  [][/\ IsBeginAuth(req') =>
          /\ resp'.body.state =
               (IF "user_id" \in DOMAIN req'.query THEN req'.query["user_id"] ELSE "default")
          /\ store' = store
          /\ io' = <<>>
     /\ CallbackSucceeded(req', io') =>
          LET u == CallbackUser(req') IN
          /\ DOMAIN store' = (DOMAIN store) \cup {u}
          /\ store'[u]["token"] = io'[1].outcome.credentials.token
          /\ resp'.body["user"] = u
          /\ \A v \in (DOMAIN store) \ {u} : store'[v] = store[v]]_vars

\* a callback for alice that created her record beside the record of default
C7_Witness ==
  /\ CallbackSucceeded(req, io)
  /\ CallbackUser(req) = "alice"
  /\ DOMAIN io[2].tokens = {"default"}
  /\ DOMAIN store = {"default", "alice"}
  /\ store["default"] = io[2].tokens["default"]

(***************************************************************************)
(* C8: the user of an /mcp request is meta.user_id, "default" when absent, *)
(* and the credential handed to the backend carries the tokens stored      *)
(* under that user, not another user's.                                    *)
(***************************************************************************)
C8_TenantIsolation ==
  IsMcp(req) =>
    /\ \A i \in BackendCalls(io) :
         /\ Requester(req) \in DOMAIN store
         /\ io[i].credentials.token = store[Requester(req)]["token"]
         /\ io[i].credentials.refresh_token = store[Requester(req)]["refresh_token"]
    /\ IsErrorEnvelope(resp, 401) => resp.body["error"]["message"][2] = Requester(req)

\* a backend call for alice while default holds a different record
C8_Witness ==
  /\ IsMcp(req)
  /\ BackendCalls(io) # {}
  /\ Requester(req) = "alice"
  /\ "default" \in DOMAIN store
  /\ store["default"]["token"] # store["alice"]["token"]
  /\ store["default"]["refresh_token"] # store["alice"]["refresh_token"]

(***************************************************************************)
(* C9: an /mcp request whose method is none of initialize, tools/list,     *)
(* tools/call (an absent method included) is answered with status 400 and  *)
(* error code -32601, with no read of the token store and no backend call. *)
(***************************************************************************)
KnownMethods == {"initialize", "tools/list", "tools/call"}

C9_UnknownMethod ==
  (IsMcp(req) /\ Method(req) \notin KnownMethods) =>
    /\ resp.status = 400
    /\ IsErrorEnvelope(resp, -32601)
    /\ io = <<>>

\* a request without a method, answered 400, on a store with records
C9_Witness ==
  /\ IsMcp(req)
  /\ "method" \notin DOMAIN req.payload
  /\ resp.status = 400
  /\ store # EmptyDict

(***************************************************************************)
(* C10: a tools/call naming a tool other than forms.get_form and           *)
(* forms.list_responses gets the answer of an unknown method: status 400,  *)
(* code -32601, for authorized and unauthorized users, with no read of the *)
(* token store and no backend call.                                        *)
(***************************************************************************)
C10_UnknownTool ==
  (NamesTool(req) /\ ToolOf(req) \notin FormTools) =>
    /\ resp.status = 400
    /\ resp.kind = "json"
    /\ resp.body = [jsonrpc |-> "2.0",
                    id |-> (IF "id" \in DOMAIN req.payload THEN req.payload["id"] ELSE None),
                    error |-> [code |-> -32601, message |-> <<"Method not found">>]]
    /\ io = <<>>

\* an unknown tool called with a form_id by an authorized user
C10_Witness ==
  /\ NamesTool(req)
  /\ ToolOf(req) \notin FormTools
  /\ Requester(req) \in DOMAIN store
  /\ "arguments" \in DOMAIN req.payload["params"]
  /\ "form_id" \in DOMAIN req.payload["params"]["arguments"]
  /\ resp.status = 400

(***************************************************************************)
(* C11: an authorization failure or an unknown method or tool of /mcp is   *)
(* answered with a JSON-RPC error envelope; the 401 envelope travels with  *)
(* transport status 200, and transport status 400 goes with the -32601     *)
(* envelope and with nothing else.                                         *)
(***************************************************************************)
\* the handler read the token store and found no record for the requester
AuthorizationFailed(r, log) ==
  /\ IsMcp(r)
  /\ \E i \in DOMAIN log : log[i].ev = "load_tokens" /\ Requester(r) \notin DOMAIN log[i].tokens

\* the request names no known method, or a tools/call names no known tool
NotFound(r) ==
  /\ IsMcp(r)
  /\ \/ Method(r) \notin {"initialize", "tools/list", "tools/call"}
     \/ NamesTool(r) /\ ToolOf(r) \notin FormTools

C11_StatusAsymmetry ==
  /\ AuthorizationFailed(req, io) => IsErrorEnvelope(resp, 401) /\ resp.status = 200
  /\ NotFound(req) => IsErrorEnvelope(resp, -32601) /\ resp.status = 400
  /\ (resp.kind = "json" /\ "error" \in DOMAIN resp.body /\ resp.body["error"]["code"] = 401)
       => resp.status = 200
  /\ resp.status = 400 <=> (IsMcp(req) /\ IsErrorEnvelope(resp, -32601))

\* the 401 envelope for alice, delivered with status 200
C11_Witness ==
  /\ AuthorizationFailed(req, io)
  /\ Requester(req) = "alice"
  /\ resp.status = 200
  /\ resp.body["error"]["code"] = 401

(***************************************************************************)
(* C12: tools/list answers the same catalog on every call: two             *)
(* descriptors, forms.get_form and forms.list_responses, each with form_id *)
(* as its only required field.  tools/call enforces it: a call of either   *)
(* tool without form_id reaches no backend and gets no success envelope,   *)
(* and a call with form_id is accepted with or without max_results.        *)
(***************************************************************************)
ArgumentsOf(r) ==
  IF "arguments" \in DOMAIN r.payload["params"] THEN r.payload["params"]["arguments"]
  ELSE EmptyDict

\* the required fields the catalog declares for a tool
RequiredBy(tool) ==
  LET i == CHOOSE k \in 1..Len(ToolCatalog.tools) : ToolCatalog.tools[k].name = tool
      required == ToolCatalog.tools[i].inputSchema.required
  IN {required[k] : k \in 1..Len(required)}

C12_CatalogEnforced ==
  /\ (IsMcp(req) /\ Method(req) = "tools/list") =>
       /\ IsSuccessEnvelope(resp)
       /\ resp.body["result"] = ToolCatalog
       /\ Len(resp.body["result"].tools) = 2
       /\ resp.body["result"].tools[1].name = "forms.get_form"
       /\ resp.body["result"].tools[2].name = "forms.list_responses"
       /\ \A i \in 1..2 : resp.body["result"].tools[i].inputSchema.required = <<"form_id">>
  /\ (NamesTool(req) /\ ToolOf(req) \in FormTools) =>
       /\ (\E k \in RequiredBy(ToolOf(req)) : k \notin DOMAIN ArgumentsOf(req)) =>
            BackendCalls(io) = {} /\ ~IsSuccessEnvelope(resp)
       /\ ((\A k \in RequiredBy(ToolOf(req)) : k \in DOMAIN ArgumentsOf(req))
           /\ Requester(req) \in DOMAIN store) =>
            /\ Cardinality(BackendCalls(io)) = 1
            /\ \A i \in BackendCalls(io) : io[i].outcome # "error" => IsSuccessEnvelope(resp)

\* an authorized user calls forms.get_form with max_results but no form_id
C12_Witness ==
  /\ NamesTool(req)
  /\ ToolOf(req) = "forms.get_form"
  /\ DOMAIN ArgumentsOf(req) = {"max_results"}
  /\ Requester(req) \in DOMAIN store
  /\ BackendCalls(io) = {}
  /\ resp.status = 500

(***************************************************************************)
(* C13: when the forms backend rejects or errors a getForm or              *)
(* listResponses call of an authorized user, the request is answered with  *)
(* a JSON-RPC error envelope and the backend was called exactly once for   *)
(* it.                                                                     *)
(***************************************************************************)
UpstreamFailed(log) == \E i \in BackendCalls(log) : log[i].outcome = "error"

C13_UpstreamFailure ==
  (IsMcp(req) /\ UpstreamFailed(io)) =>
    /\ Cardinality(BackendCalls(io)) = 1
    /\ resp.kind = "json"
    /\ "error" \in DOMAIN resp.body
    /\ "result" \notin DOMAIN resp.body

(***************************************************************************)
(* C14: a callback whose code exchange fails is not answered with the      *)
(* success status and leaves the token store as it was, the exchange       *)
(* coming before any load or save; the success status naming user U is     *)
(* returned only when the exchange, a load and then a save of the merged   *)
(* record of U have happened, and the store holds that record.             *)
(***************************************************************************)
ExchangeFailed(r, log) ==
  IsCallback(r) /\ \E i \in DOMAIN log : log[i].ev = "fetch_token" /\ ~log[i].outcome.ok

ConnectedStatus(rsp) ==
  /\ rsp.status = 200
  /\ rsp.kind = "json"
  /\ "user" \in DOMAIN rsp.body
  /\ rsp.body["status"] = "forms connected successfully"

\* log is exchange, load, save, and the saved record of u is the merge of the
\* exchanged credentials with what the load held for u
SavedMerged(log, u) ==
  /\ Len(log) = 3
  /\ log[1].ev = "fetch_token" /\ log[1].outcome.ok
  /\ log[2].ev = "load_tokens"
  /\ log[3].ev = "save_tokens"
  /\ u \in DOMAIN log[3].tokens
  /\ log[3].tokens[u]["token"] = log[1].outcome.credentials.token
  /\ log[3].tokens[u]["refresh_token"] =
       IF log[1].outcome.credentials.refresh_token \notin {None, EmptyStr}
       THEN log[1].outcome.credentials.refresh_token
       ELSE IF u \in DOMAIN log[2].tokens THEN log[2].tokens[u]["refresh_token"] ELSE None

C14_ExchangeFailurePropagates ==
  [][ IsCallback(req') =>
        /\ ExchangeFailed(req', io') =>
             /\ ~ConnectedStatus(resp')
             /\ resp'.status # 200
             /\ store' = store
             /\ \A i \in DOMAIN io' : io'[i].ev = "fetch_token"
        /\ ConnectedStatus(resp') =>
             /\ SavedMerged(io', resp'.body["user"])
             /\ resp'.body["user"] \in DOMAIN store'
             /\ store'[resp'.body["user"]] = io'[3].tokens[resp'.body["user"]]
    ]_vars

\* the exchange fails for a user whose record is in the store
C14_Witness ==
  /\ ExchangeFailed(req, io)
  /\ CallbackUser(req) \in DOMAIN store
  /\ resp.status = 500

(***************************************************************************)
(* C15: forms.list_responses calls listResponses with a page size equal to *)
(* arguments.max_results when it is supplied and to 5 when it is omitted,  *)
(* and 5 is the default the tools/list catalog declares for max_results.   *)
(***************************************************************************)
CatalogDefault ==
  LET i == CHOOSE k \in 1..Len(ToolCatalog.tools) : ToolCatalog.tools[k].name = "forms.list_responses"
  IN ToolCatalog.tools[i].inputSchema.properties.max_results.default

ListCalls(log) == {i \in BackendCalls(log) : log[i].op = "listResponses"}

C15_MaxResultsDefault ==
  /\ CatalogDefault = 5
  /\ IsMcp(req) =>
       \A i \in ListCalls(io) :
         /\ ToolOf(req) = "forms.list_responses"
         /\ io[i].formId = ArgumentsOf(req)["form_id"]
         /\ io[i].pageSize = IF "max_results" \in DOMAIN ArgumentsOf(req)
                             THEN ArgumentsOf(req)["max_results"]
                             ELSE CatalogDefault
  /\ (NamesTool(req) /\ ToolOf(req) = "forms.list_responses"
      /\ "form_id" \in DOMAIN ArgumentsOf(req) /\ Requester(req) \in DOMAIN store) =>
       ListCalls(io) # {}

\* listResponses was called for a request without max_results
C15_Witness ==
  /\ IsMcp(req)
  /\ ListCalls(io) # {}
  /\ "max_results" \notin DOMAIN ArgumentsOf(req)
  /\ \A i \in ListCalls(io) : io[i].pageSize = 5

(***************************************************************************)
(* C16: initialize and tools/list check no authorization: whoever the      *)
(* user and whatever the token store holds, the store is not read and the  *)
(* answer is the same success envelope, the server identity or the         *)
(* catalog, with the id of the request; it is never the 401 envelope.      *)
(***************************************************************************)
RequestId(r) == IF "id" \in DOMAIN r.payload THEN r.payload["id"] ELSE None

C16_DiscoveryUnauthenticated ==
  (IsMcp(req) /\ Method(req) \in {"initialize", "tools/list"}) =>
    /\ io = <<>>
    /\ ~IsErrorEnvelope(resp, 401)
    /\ resp = [status |-> 200, kind |-> "json",
               body |-> [jsonrpc |-> "2.0", id |-> RequestId(req),
                         result |-> IF Method(req) = "initialize" THEN ServerInfo ELSE ToolCatalog]]

\* initialize by a user without a record, while another user has one
C16_Witness ==
  /\ IsMcp(req)
  /\ Method(req) = "initialize"
  /\ Requester(req) \notin DOMAIN store
  /\ store # EmptyDict
  /\ IsSuccessEnvelope(resp)

(***************************************************************************)
(* C17: when two callbacks for the same user run concurrently and their    *)
(* loads and saves interleave, no step replaces a stored refresh token of  *)
(* the user by an absent value.                                            *)
(***************************************************************************)
\* the callbacks that got past the exchange
Callers == {p \in Procs : "user_id" \in DOMAIN loc[p]}

SameUser == \A p, q \in Callers : loc[p].user_id = loc[q].user_id

C17_SameUserRace ==
  [][SameUser => \A u \in UserIds : HoldsRefresh(store, u) => HoldsRefresh(store', u)]_vars

(***************************************************************************)
(* C18: when two callbacks for different users A and B run concurrently,   *)
(* each load and each save being atomic, then once both have returned the  *)
(* success status the token store holds the record each of them saved.     *)
(***************************************************************************)
Returned(p) == pc[p] = "done" /\ "record" \in DOMAIN loc[p]

C18_DifferentUserRace ==
  \A p, q \in Procs :
    (Returned(p) /\ Returned(q) /\ loc[p].user_id # loc[q].user_id) =>
      /\ loc[p].user_id \in DOMAIN store
      /\ store[loc[p].user_id] = loc[p].record

(***************************************************************************)
(* C19: no /mcp request changes the token store, whatever its method and   *)
(* whether it succeeds, gets the 401 envelope or fails upstream, a call    *)
(* during which the credential refreshed its access token included; the    *)
(* store changes only in a callback that carried a code and completed.     *)
(***************************************************************************)
C19_RpcReadsOnly ==
  [][ /\ IsMcp(req') => store' = store
      /\ store' # store => CallbackSucceeded(req', io')
    ]_vars

\* a backend call refreshed the access token and the store holds the old one
C19_Witness ==
  /\ IsMcp(req)
  /\ \E i \in BackendCalls(io) :
       /\ io[i].outcome = "refreshed"
       /\ io[i].credentials.refresh_token # None
       /\ store[Requester(req)]["token"] = io[i].credentials.token
  /\ IsSuccessEnvelope(resp)

(***************************************************************************)
(* C20: every envelope /mcp returns, success, 401 or -32601, carries the   *)
(* id of the request it answers (null when the request has none) and       *)
(* exactly one of result and error.                                        *)
(***************************************************************************)
C20_EnvelopePairing ==
  (IsMcp(req) /\ resp.kind = "json") =>
    /\ "id" \in DOMAIN resp.body
    /\ resp.body["id"] = RequestId(req)
    /\ ("result" \in DOMAIN resp.body) # ("error" \in DOMAIN resp.body)
    /\ \/ IsSuccessEnvelope(resp)
       \/ IsErrorEnvelope(resp, 401)
       \/ IsErrorEnvelope(resp, -32601)

\* a 401 envelope that answers a request with an id
C20_Witness ==
  /\ IsMcp(req)
  /\ "id" \in DOMAIN req.payload
  /\ IsErrorEnvelope(resp, 401)
  /\ resp.body["id"] = req.payload["id"]

====
